---- MODULE Spec2Model ----
(***************************************************************************)
(* A model of the two scraping pipelines of zootierliste_git_scraping:     *)
(*   fetch_zoo_arts.py  (the arts pipeline)                                *)
(*   zoo_locations.py   (the location pipeline)                            *)
(*                                                                         *)
(* Text is modelled at the level of characters: a Python str is a sequence *)
(* of one-character strings.  An optional value (None or v) is the empty   *)
(* sequence or the one-element sequence <<v>>.                             *)
(***************************************************************************)
EXTENDS Integers, Sequences, FiniteSets, TLC

VARIABLES
    pc,           \* position of the running main()
    args,         \* the parsed command line and the files/servers it names
    ids,          \* fetch_zoo_arts.main: the resolved ID list
    pos,          \* run_for_ids: how many elements of ids the for loop has consumed
    count,        \* run_for_ids: the local counter `count`
    outcomes,     \* per consumed ID, how its iteration ended
    log,          \* observable events, in order: requests, file writes, sleeps
    exitCode,     \* the process exit status, <<>> while running
    raised,       \* the exception that ended main(), <<>> if none
    tsv_text,     \* zoo_locations.main: the fetched payload
    locs,         \* zoo_locations.main: parse_to_locations' result
    sorted_rows,  \* zoo_locations.main: the rows handed to write_csv
    out_file,     \* the location CSV: <<>> if absent, else <<rows>>
    html_text,    \* extract_art_ids_from_html: its argument (the parsed links)
    arts,         \* extract_art_ids_from_html: its result
    x,            \* _fmt_sig6: its argument
    s             \* _fmt_sig6: its result

vars == <<pc, args, ids, pos, count, outcomes, log, exitCode, raised,
          tsv_text, locs, sorted_rows, out_file, html_text, arts, x, s>>

artsVars == <<ids, pos, count, outcomes>>
locVars  == <<tsv_text, locs, sorted_rows, out_file>>
pureVars == <<html_text, arts, x, s>>

None == <<>>
Some(v) == <<v>>

(***************************************************************************)
(* Bounds of the model.                                                    *)
(***************************************************************************)
MaxRows    == 2   \* data rows of the locations CSV read by the arts pipeline
MaxRetries == 1   \* the --max-retries the arts pipeline is run with

(***************************************************************************)
(* Python str helpers.                                                     *)
(***************************************************************************)
SP    == " "
TAB   == "\t"
QUOTE == "\""

Digit == {"0", "1", "2", "3", "4", "5", "6", "7", "8", "9"}

DigitVal(c) ==
    CASE c = "0" -> 0 [] c = "1" -> 1 [] c = "2" -> 2 [] c = "3" -> 3
      [] c = "4" -> 4 [] c = "5" -> 5 [] c = "6" -> 6 [] c = "7" -> 7
      [] c = "8" -> 8 [] c = "9" -> 9

RECURSIVE LStrip(_)
LStrip(str) ==
    IF str # <<>> /\ Head(str) = SP THEN LStrip(Tail(str)) ELSE str

RECURSIVE RStrip(_)
RStrip(str) ==
    IF str # <<>> /\ str[Len(str)] = SP
    THEN RStrip(SubSeq(str, 1, Len(str) - 1)) ELSE str

\* str.rstrip(c)
RECURSIVE RStripChar(_, _)
RStripChar(str, c) ==
    IF str # <<>> /\ str[Len(str)] = c
    THEN RStripChar(SubSeq(str, 1, Len(str) - 1), c) ELSE str

\* str.strip()
Strip(str) == RStrip(LStrip(str))

AllDigits(str) == \A i \in 1..Len(str) : str[i] \in Digit

RECURSIVE DigitsVal(_)
DigitsVal(str) ==
    IF str = <<>> THEN 0
    ELSE 10 * DigitsVal(SubSeq(str, 1, Len(str) - 1)) + DigitVal(str[Len(str)])

\* int(str): <<n>>, or <<>> where Python raises ValueError.  int() strips
\* surrounding whitespace and accepts one sign before a non-empty digit run.
PyInt(str) ==
    LET t == Strip(str)
        signed == t # <<>> /\ Head(t) \in {"-", "+"}
        d == IF signed THEN Tail(t) ELSE t
    IN  IF d = <<>> \/ ~AllDigits(d) THEN None
        ELSE IF signed /\ Head(t) = "-" THEN Some(0 - DigitsVal(d))
        ELSE Some(DigitsVal(d))

(***************************************************************************)
(* Python floats.  A float read from decimal text is [neg, m, sc], the     *)
(* value (-1)^neg * m / 10^sc, with m free of trailing zeros when sc > 0.  *)
(* The texts of the model carry no exponent, "inf", "nan" or underscore,   *)
(* so these are all the floats float() produces here.                      *)
(***************************************************************************)
RECURSIVE Pow10(_)
Pow10(k) == IF k = 0 THEN 1 ELSE 10 * Pow10(k - 1)

RECURSIVE Normal(_)
Normal(d) ==
    IF d.m = 0 THEN [d EXCEPT !.sc = 0]
    ELSE IF d.sc > 0 /\ d.m % 10 = 0
    THEN Normal([d EXCEPT !.m = d.m \div 10, !.sc = d.sc - 1])
    ELSE d

IndexOf(str, c) ==
    IF \E i \in 1..Len(str) : str[i] = c
    THEN CHOOSE i \in 1..Len(str) : str[i] = c /\ \A j \in 1..(i - 1) : str[j] # c
    ELSE 0

Contains(str, c) == IndexOf(str, c) # 0

\* float(str): <<d>>, or <<>> where Python raises ValueError: optional
\* whitespace, an optional sign, then digits with an optional point, at
\* least one digit in all.
PyFloat(str) ==
    LET t == Strip(str)
        signed == t # <<>> /\ Head(t) \in {"-", "+"}
        u == IF signed THEN Tail(t) ELSE t
        dot == IndexOf(u, ".")
        ip == IF dot = 0 THEN u ELSE SubSeq(u, 1, dot - 1)
        fp == IF dot = 0 THEN <<>> ELSE SubSeq(u, dot + 1, Len(u))
        fz == RStripChar(fp, "0")      \* trailing zeros carry no value
    IN  IF ip \o fp = <<>> \/ ~AllDigits(ip) \/ ~AllDigits(fp) THEN None
        ELSE Some(Normal([neg |-> signed /\ Head(t) = "-",
                          m |-> DigitsVal(ip \o fz), sc |-> Len(fz)]))

DigitChar(n) ==
    CASE n = 0 -> "0" [] n = 1 -> "1" [] n = 2 -> "2" [] n = 3 -> "3"
      [] n = 4 -> "4" [] n = 5 -> "5" [] n = 6 -> "6" [] n = 7 -> "7"
      [] n = 8 -> "8" [] n = 9 -> "9"

\* str(n) for n >= 0
RECURSIVE NatStr(_)
NatStr(n) == IF n < 10 THEN <<DigitChar(n)>> ELSE NatStr(n \div 10) \o <<DigitChar(n % 10)>>

\* str(n)
IntStr(n) == IF n < 0 THEN <<"-">> \o NatStr(0 - n) ELSE NatStr(n)

NumDigits(n) == Len(NatStr(n))

\* n written with exactly w digits (leading zeros)
RECURSIVE Padded(_, _)
Padded(n, w) == IF w = 0 THEN <<>> ELSE Padded(n \div 10, w - 1) \o <<DigitChar(n % 10)>>

\* str.lstrip(c)
RECURSIVE LStripChar(_, _)
LStripChar(str, c) ==
    IF str # <<>> /\ Head(str) = c THEN LStripChar(Tail(str), c) ELSE str

\* n / 10^k rounded to an integer, ties to even (k >= 0).
RoundDiv10(n, k) ==
    IF k = 0 THEN n
    ELSE LET q == n \div Pow10(k)
             r == n % Pow10(k)
             half == 5 * Pow10(k - 1)
         IN  IF r > half \/ (r = half /\ q % 2 = 1) THEN q + 1 ELSE q

SignStr(d) == IF d.neg THEN <<"-">> ELSE <<>>

\* format(x, ".6g"): 6 significant digits; scientific notation when the
\* decimal exponent is below -4 or at least 6; trailing zeros removed.
FormatG6(d) ==
    IF d.m = 0 THEN SignStr(d) \o <<"0">>
    ELSE
    LET nd  == NumDigits(d.m)
        r6  == IF nd <= 6 THEN d.m * Pow10(6 - nd) ELSE RoundDiv10(d.m, nd - 6)
        car == r6 = Pow10(6)
        m6  == IF car THEN Pow10(5) ELSE r6
        X   == nd - 1 - d.sc + (IF car THEN 1 ELSE 0)
    IN  IF X < 0 - 4 \/ X >= 6
        THEN LET frac == RStripChar(Padded(m6 % Pow10(5), 5), "0")
                 mant == <<DigitChar(m6 \div Pow10(5))>>
                         \o (IF frac = <<>> THEN <<>> ELSE <<".">> \o frac)
                 ex   == IF X < 0 THEN <<"-">> \o Padded(0 - X, 2)
                         ELSE <<"+">> \o Padded(X, 2)
             IN  SignStr(d) \o mant \o <<"e">> \o ex
        ELSE LET D    == 5 - X
                 frac == RStripChar(Padded(m6 % Pow10(D), D), "0")
             IN  SignStr(d) \o NatStr(m6 \div Pow10(D))
                 \o (IF frac = <<>> THEN <<>> ELSE <<".">> \o frac)

\* f"{x:.6f}": fixed point with 6 digits after the point.
FormatF6(d) ==
    LET ip == d.m \div Pow10(d.sc)
        fr == d.m % Pow10(d.sc)
        f6 == IF d.sc <= 6 THEN fr * Pow10(6 - d.sc) ELSE RoundDiv10(fr, d.sc - 6)
        car == f6 = Pow10(6)
    IN  SignStr(d) \o NatStr(IF car THEN ip + 1 ELSE ip) \o <<".">>
        \o Padded(IF car THEN 0 ELSE f6, 6)

\* _fmt_sig6
FmtFallback(str, d) ==
    IF Contains(str, "e") \/ Contains(str, "E")
    THEN RStripChar(RStripChar(FormatF6(d), "0"), ".")
    ELSE str

FmtPoint_Bare(str) == str
FmtPoint(str) == IF ~Contains(str, ".") THEN str \o <<".", "0">> ELSE str

FmtSig6(d) == FmtPoint(FmtFallback(FormatG6(d), d))

(***************************************************************************)
(* The HTTP session: requests + urllib3 Retry, as configured by            *)
(* session_with_retries.  The server's behaviour is a sequence of answers, *)
(* one per attempt: a status code, or "conn" for a connection failure or   *)
(* timeout.                                                                *)
(***************************************************************************)
STATUS_FORCELIST == {429, 500, 502, 503, 504}

Answer == {"200", "404", "500", "conn"}

StatusOf(a) == CASE a = "200" -> 200 [] a = "404" -> 404 [] a = "500" -> 500

\* One request through the adapter: the answers are consumed from attempt k
\* on with `left` retries left (Retry.total).  The result is
\*   [kind |-> "response", status |-> n]  the response handed to the caller
\*   [kind |-> "RetryError", ...]         retries used up on a forcelist status
\*                                        and raise_on_status is set
\*   [kind |-> "ConnectionError", ...]    retries used up on connection failures
RECURSIVE Send(_, _, _, _)
Send(answers, k, left, raise_on_status) ==
    LET a == answers[k]
    IN  IF a = "conn"
        THEN IF left = 0
             THEN [kind |-> "ConnectionError", status |-> 0]
             ELSE Send(answers, k + 1, left - 1, raise_on_status)
        ELSE IF StatusOf(a) \in STATUS_FORCELIST
        THEN IF left = 0
             THEN IF raise_on_status
                  THEN [kind |-> "RetryError", status |-> StatusOf(a)]
                  ELSE [kind |-> "response", status |-> StatusOf(a)]
             ELSE Send(answers, k + 1, left - 1, raise_on_status)
        ELSE [kind |-> "response", status |-> StatusOf(a)]

\* Response.raise_for_status(): raises HTTPError for 4xx and 5xx.
RaisesForStatus(status) == status >= 400 /\ status < 600

Attempts(total) == [1..(total + 1) -> Answer]

(***************************************************************************)
(* The arts pipeline: fetch_zoo_arts.py                                    *)
(***************************************************************************)
DefaultSleep == 1      \* --sleep default (seconds)
SleepCap     == 999999 \* run_for_ids: `count < 999999`

\* The locations file named by --locations, as csv.DictReader sees it:
\* fieldnames is None for an empty file, else the first row; cells holds, per
\* data row, the value DictReader gives for key "zoo_id": a str, or None for
\* a row too short to reach that column (restval).
CsvHeadersWithout ==
    { None, Some(<<>>), Some(<<"id", "latitude">>), Some(<<"5", "52.5", "13.4">>),
      Some(<<" zoo_id", "Zoo_ID">>) }
CsvHeaderWith == Some(<<"zoo_id", "latitude", "longitude">>)

CellValues ==
    { None, Some(<<>>), Some(<<"1">>), Some(<<"2">>), Some(<<SP, "3", SP>>),
      Some(<<"x">>) }

SeqsUpTo(S, n) == UNION { [1..k -> S] : k \in 0..n }

CsvFiles ==
    { [fieldnames |-> h, cells |-> <<>>] : h \in CsvHeadersWithout }
    \cup { [fieldnames |-> CsvHeaderWith, cells |-> c] : c \in SeqsUpTo(CellValues, MaxRows) }

Offsets == (0 - 1)..(MaxRows + 1)
Limits  == { None } \cup { Some(n) : n \in (0 - MaxRows)..(MaxRows + 1) }

\* The command lines argparse accepts: exactly one of --zoo-id and --locations.
ArtsArgs ==
    { [zoo_id |-> Some(z), locations |-> None, offset |-> o, limit |-> l,
       sleep_s |-> DefaultSleep, max_retries |-> MaxRetries]
        : z \in {0, 7}, o \in {0, 1}, l \in {None, Some(0)} }
    \cup
    { [zoo_id |-> None, locations |-> Some(f), offset |-> o, limit |-> l,
       sleep_s |-> DefaultSleep, max_retries |-> MaxRetries]
        : f \in CsvFiles, o \in Offsets, l \in Limits }

\* read_zoo_ids_from_locations: [raised |-> exception name or None, ids |-> list]
RECURSIVE ReadCells(_, _)
ReadCells(cells, acc) ==
    IF cells = <<>> THEN [raised |-> None, ids |-> acc]
    ELSE LET c == Head(cells)
         IN  IF c = None
             THEN [raised |-> Some("AttributeError"), ids |-> <<>>]   \* None.strip()
             ELSE LET v == Strip(c[1])
                  IN  IF v = <<>> THEN ReadCells(Tail(cells), acc)
                      ELSE IF PyInt(v) = None THEN ReadCells(Tail(cells), acc)
                      ELSE ReadCells(Tail(cells), Append(acc, PyInt(v)[1]))

HasZooIdColumn(fieldnames) == \E i \in 1..Len(fieldnames) : fieldnames[i] = "zoo_id"

read_zoo_ids_from_locations_NoColumnCheck(f) == ReadCells(f.cells, <<>>)
read_zoo_ids_from_locations(f) ==
    IF f.fieldnames = None
    THEN [raised |-> Some("TypeError"), ids |-> <<>>]     \* "zoo_id" not in None
    ELSE IF ~HasZooIdColumn(f.fieldnames[1])
    THEN [raised |-> Some("ValueError"), ids |-> <<>>]
    ELSE ReadCells(f.cells, <<>>)

Min(a, b) == IF a < b THEN a ELSE b
Max(a, b) == IF a > b THEN a ELSE b

\* Python's seq[start:end]: a negative index counts from the end, and both
\* indices are clamped to the sequence; end = None is the end of the sequence.
PyIndex(i, n) == IF i < 0 THEN Max(i + n, 0) ELSE Min(i, n)

PySlice(seq, start, end) ==
    LET n  == Len(seq)
        lo == PyIndex(start, n)
        hi == IF end = None THEN n ELSE PyIndex(end[1], n)
    IN  SubSeq(seq, lo + 1, hi)

\* main, lines 168-177: the resolved ID list.
ResolveIds(a) ==
    IF a.zoo_id # None THEN [raised |-> None, ids |-> <<a.zoo_id[1]>>]
    ELSE LET r == read_zoo_ids_from_locations(a.locations[1])
         IN  IF r.raised # None THEN r
             ELSE IF a.offset # 0 \/ a.limit # None
             THEN LET start == Max(a.offset, 0)
                      end   == IF a.limit # None THEN Some(start + a.limit[1]) ELSE None
                  IN  [raised |-> None, ids |-> PySlice(r.ids, start, end)]
             ELSE r

\* main, lines 179-181: the status main returns instead of running the loop,
\* None if it runs the loop.
EarlyExit_NoEmptyCheck(resolved) == None
EarlyExit(resolved) == IF resolved = <<>> THEN Some(2) ELSE None

ArtsIdle == /\ ids = <<>> /\ pos = 0 /\ count = 0 /\ outcomes = <<>>
LocIdle  == /\ tsv_text = <<>> /\ locs = <<>> /\ sorted_rows = <<>> /\ out_file = None
PureIdle == /\ html_text = <<>> /\ arts = <<>> /\ x = <<>> /\ s = <<>>

Init ==
    /\ pc = "start"
    /\ args \in ArtsArgs
    /\ log = <<>>
    /\ exitCode = None
    /\ raised = None
    /\ ArtsIdle /\ LocIdle /\ PureIdle

\* main, lines 153-183: resolve the IDs; an exception of
\* read_zoo_ids_from_locations is not caught (exit status 1); an empty list
\* returns 2; otherwise run_for_ids starts (count = 0).
ArtsStart ==
    /\ pc = "start"
    /\ LET r == ResolveIds(args)
       IN  IF r.raised # None
           THEN /\ pc' = "done" /\ raised' = r.raised /\ exitCode' = Some(1)
                /\ UNCHANGED ids
           ELSE IF EarlyExit(r.ids) # None
           THEN /\ pc' = "done" /\ exitCode' = EarlyExit(r.ids) /\ ids' = r.ids
                /\ UNCHANGED raised
           ELSE /\ pc' = "loop" /\ ids' = r.ids
                /\ UNCHANGED <<raised, exitCode>>
    /\ count' = 0
    /\ UNCHANGED <<args, pos, outcomes, log>>
    /\ UNCHANGED <<locVars, pureVars>>

\* fetch_art_ids_for_zoo + write_art_csv inside the try of run_for_ids: how
\* one iteration ends.  The session is mounted with raise_on_status=False.
\*   "ok"     the request, the parsing and the file write succeeded
\*   "http"   raise_for_status raised HTTPError          (except, line 144)
\*   "conn"   the request raised a connection error      (except, line 146)
\*   "parse"  extract_art_ids_from_html raised           (except, line 146)
\*   "write"  write_art_csv raised                       (except, line 146)
IterationOutcome(answers, max_retries, parse_ok, write_ok) ==
    LET r == Send(answers, 1, max_retries, FALSE)
    IN  IF r.kind # "response" THEN "conn"
        ELSE IF RaisesForStatus(r.status) THEN "http"
        ELSE IF ~parse_ok THEN "parse"
        ELSE IF ~write_ok THEN "write"
        ELSE "ok"

\* run_for_ids, lines 144-147: both except clauses only print, so the for
\* loop goes on whatever the outcome.
AfterIteration_AbortOnHttp(o) == IF o = "http" THEN "done" ELSE "loop"
AfterIteration(o) == "loop"

\* run_for_ids, lines 148-150: whether the loop sleeps after this ID.
SleepsAfter(sleep_s, newCount) == sleep_s > 0 /\ newCount < SleepCap

\* run_for_ids, one iteration of the for loop (lines 138-150).
ArtsIterate ==
    /\ pc = "loop"
    /\ pos < Len(ids)
    /\ \E answers \in Attempts(args.max_retries), parse_ok \in BOOLEAN, write_ok \in BOOLEAN :
         LET zoo_id == ids[pos + 1]
             o == IterationOutcome(answers, args.max_retries, parse_ok, write_ok)
             posted == <<[op |-> "post", id |-> zoo_id]>>
             wrote  == IF o = "ok" THEN <<[op |-> "write", id |-> zoo_id]>> ELSE <<>>
             slept  == IF SleepsAfter(args.sleep_s, count + 1)
                       THEN <<[op |-> "sleep", id |-> zoo_id]>> ELSE <<>>
         IN  /\ outcomes' = Append(outcomes, o)
             /\ log' = log \o posted \o wrote \o slept
             /\ pc' = AfterIteration(o)
    /\ count' = count + 1
    /\ pos' = pos + 1
    /\ UNCHANGED <<args, ids, exitCode, raised>>
    /\ UNCHANGED <<locVars, pureVars>>

\* run_for_ids returns when the list is exhausted; main returns 0 (line 191).
ArtsReturn ==
    /\ pc = "loop"
    /\ pos = Len(ids)
    /\ pc' = "done"
    /\ exitCode' = Some(0)
    /\ UNCHANGED <<args, ids, pos, count, outcomes, log, raised>>
    /\ UNCHANGED <<locVars, pureVars>>

Next == ArtsStart \/ ArtsIterate \/ ArtsReturn

Spec == Init /\ [][Next]_vars

(***************************************************************************)
(* The location pipeline: zoo_locations.py                                 *)
(***************************************************************************)
RetryTotal == 3   \* session_with_retries: Retry(total=3)

NL  == "\n"
BOM  == "U+FEFF"   \* the one character "\ufeff"
BOM2 == "U+FFFE"   \* the one character "\ufffe"

\* str.splitlines(), for text whose only line boundary is "\n": the pieces
\* between the newlines, without a last empty piece.
RECURSIVE SplitLines(_)
SplitLines(text) ==
    IF text = <<>> THEN <<>>
    ELSE LET i == IndexOf(text, NL)
         IN  IF i = 0 THEN <<text>>
             ELSE <<SubSeq(text, 1, i - 1)>> \o SplitLines(SubSeq(text, i + 1, Len(text)))

\* csv.reader(lines, delimiter="\t"): the parser of the _csv module with the
\* default dialect otherwise (quotechar '"', doublequote, not strict).  cs is
\* the parser state: st its state, field the field being read, fields the
\* fields of the record being read, rows the records returned so far.
CsvChar(cs, c) ==
    LET save(st2)  == [cs EXCEPT !.st = st2, !.field = <<>>,
                                 !.fields = Append(cs.fields, cs.field)]
        add(st2)   == [cs EXCEPT !.st = st2, !.field = Append(cs.field, c)]
        startField ==
            IF c = QUOTE THEN [cs EXCEPT !.st = "IN_QUOTED_FIELD"]
            ELSE IF c = TAB THEN save("START_FIELD")
            ELSE add("IN_FIELD")
    IN  CASE cs.st = "START_RECORD" -> startField
          [] cs.st = "START_FIELD"  -> startField
          [] cs.st = "IN_FIELD" ->
                IF c = TAB THEN save("START_FIELD") ELSE add("IN_FIELD")
          [] cs.st = "IN_QUOTED_FIELD" ->
                IF c = QUOTE THEN [cs EXCEPT !.st = "QUOTE_IN_QUOTED_FIELD"]
                ELSE add("IN_QUOTED_FIELD")
          [] cs.st = "QUOTE_IN_QUOTED_FIELD" ->
                IF c = QUOTE THEN add("IN_QUOTED_FIELD")
                ELSE IF c = TAB THEN save("START_FIELD")
                ELSE add("IN_FIELD")

\* The end of a line: it ends the record, except inside a quoted field,
\* which goes on in the next line.
CsvEol(cs) ==
    LET emit(fs) == [st |-> "START_RECORD", field |-> <<>>, fields |-> <<>>,
                     rows |-> Append(cs.rows, fs)]
    IN  CASE cs.st = "START_RECORD"    -> emit(<<>>)
          [] cs.st = "IN_QUOTED_FIELD" -> cs
          [] OTHER                     -> emit(Append(cs.fields, cs.field))

RECURSIVE CsvLine(_, _)
CsvLine(cs, line) ==
    IF line = <<>> THEN CsvEol(cs) ELSE CsvLine(CsvChar(cs, Head(line)), Tail(line))

\* The end of the input inside a record: the record read so far is returned.
RECURSIVE CsvLines(_, _)
CsvLines(cs, lines) ==
    IF lines = <<>>
    THEN IF cs.st = "IN_QUOTED_FIELD" THEN Append(cs.rows, Append(cs.fields, cs.field))
         ELSE cs.rows
    ELSE CsvLines(CsvLine(cs, Head(lines)), Tail(lines))

CsvReader(lines) ==
    CsvLines([st |-> "START_RECORD", field |-> <<>>, fields |-> <<>>, rows |-> <<>>], lines)

\* parse_to_locations, the body of the for loop: <<(zoo_id, lat, lon)>> for
\* a row that is kept, <<>> for a row that is skipped.
ParseRow(row) ==
    IF row = <<>> \/ Len(row) < 2 THEN None
    ELSE LET latlon == Strip(row[1])
             zoo_id_str == Strip(row[2])
             comma == IndexOf(latlon, ",")
         IN  IF latlon = <<>> \/ zoo_id_str = <<>> THEN None
             ELSE IF comma = 0 THEN None              \* unpacking raises ValueError
             ELSE LET lat == PyFloat(SubSeq(latlon, 1, comma - 1))
                      lon == PyFloat(SubSeq(latlon, comma + 1, Len(latlon)))
                      zoo_id == PyInt(zoo_id_str)
                  IN  IF lat = None \/ lon = None \/ zoo_id = None THEN None
                      ELSE Some(<<zoo_id[1], lat[1], lon[1]>>)

RECURSIVE ParseRows(_)
ParseRows(rows) ==
    IF rows = <<>> THEN <<>> ELSE ParseRow(Head(rows)) \o ParseRows(Tail(rows))

\* parse_to_locations
parse_to_locations(text) ==
    LET rows == CsvReader(SplitLines(text))
    IN  IF rows = <<>> THEN <<>> ELSE ParseRows(Tail(rows))   \* next(reader, None)

\* dedupe_by_zoo_id: the dict, as its items in insertion order.
HasKey(d, k) == \E i \in 1..Len(d) : d[i][1] = k

RECURSIVE DedupeInto(_, _)
DedupeInto(result, ls) ==
    IF ls = <<>> THEN result
    ELSE DedupeInto(IF HasKey(result, Head(ls)[1]) THEN result
                    ELSE Append(result, Head(ls)),
                    Tail(ls))

RECURSIVE DedupeLastInto(_, _)
DedupeLastInto(result, ls) ==
    IF ls = <<>> THEN result
    ELSE DedupeLastInto(
             IF HasKey(result, Head(ls)[1])
             THEN [i \in 1..Len(result) |->
                      IF result[i][1] = Head(ls)[1] THEN Head(ls) ELSE result[i]]
             ELSE Append(result, Head(ls)),
             Tail(ls))

dedupe_by_zoo_id_LastWins(ls) == DedupeLastInto(<<>>, ls)
dedupe_by_zoo_id(ls) == DedupeInto(<<>>, ls)

\* sorted(items, key=lambda x: x[0]): a stable sort by the first component.
RECURSIVE InsertByKey(_, _)
InsertByKey(sorted, item) ==
    IF sorted = <<>> THEN <<item>>
    ELSE IF sorted[Len(sorted)][1] <= item[1] THEN Append(sorted, item)
    ELSE Append(InsertByKey(SubSeq(sorted, 1, Len(sorted) - 1), item), sorted[Len(sorted)])

RECURSIVE SortedByKey(_)
SortedByKey(items) ==
    IF items = <<>> THEN <<>>
    ELSE InsertByKey(SortedByKey(SubSeq(items, 1, Len(items) - 1)), items[Len(items)])

\* main, line 142
SortRows(by_id) == SortedByKey(by_id)

\* write_csv: the data rows written (after the header row).
CsvRow(item) == <<IntStr(item[1]), FmtSig6(item[2]), FmtSig6(item[3])>>
WrittenRows(items) == [i \in 1..Len(items) |-> CsvRow(items[i])]

\* main's except clauses (lines 146-151): the exit status per exception.
ExitFor(exc) == IF exc = "HTTPError" THEN 3 ELSE 1

\* fetch_map_tsv: BOMs stripped from the front of the body.
StripBom(text) == LStripChar(LStripChar(text, BOM), BOM2)

Join(lines) ==
    LET F[i \in 0..Len(lines)] ==
            IF i = 0 THEN <<>>
            ELSE IF i = 1 THEN lines[1] ELSE F[i - 1] \o <<NL>> \o lines[i]
    IN  F[Len(lines)]

HeaderLine == <<"l", TAB, "i">>

\* Bodies the feed endpoint may answer with (main's run).
Bodies ==
    { <<>>,
      HeaderLine,
      <<BOM>> \o Join(<<HeaderLine, <<"1", ",", "2", TAB, "5">>>>),
      Join(<<HeaderLine, <<"1", ",", "2", TAB, "5">>, <<"3", ".", "5", ",", "2", TAB, "4">>,
             <<"9", ",", "9", TAB, "5">>>>) \o <<NL>>,
      Join(<<HeaderLine, <<"x", TAB, "5">>, <<>>, <<"1", ",", "2">>>>) }

InitLoc ==
    /\ pc = "start"
    /\ args = <<>>
    /\ log = <<>>
    /\ exitCode = None
    /\ raised = None
    /\ ArtsIdle /\ LocIdle /\ PureIdle

LocRaise(exc) ==
    /\ pc' = "done"
    /\ raised' = Some(exc)
    /\ exitCode' = Some(ExitFor(exc))

\* main, line 136: fetch_map_tsv.  The session retries with the default
\* raise_on_status (True).
LocFetch ==
    /\ pc = "start"
    /\ \E answers \in Attempts(RetryTotal), body \in Bodies :
         LET r == Send(answers, 1, RetryTotal, TRUE)
         IN  /\ log' = <<[op |-> "get", answers |-> answers]>>
                       \o (IF r.kind = "response" /\ ~RaisesForStatus(r.status)
                           THEN <<[op |-> "sleep", answers |-> <<>>]>> ELSE <<>>)
             /\ IF r.kind # "response"
                THEN LocRaise(r.kind) /\ UNCHANGED tsv_text
                ELSE IF RaisesForStatus(r.status)
                THEN LocRaise("HTTPError") /\ UNCHANGED tsv_text
                ELSE /\ pc' = "fetched"
                     /\ tsv_text' = StripBom(body)
                     /\ UNCHANGED <<raised, exitCode>>
    /\ UNCHANGED <<args, locs, sorted_rows, out_file>>
    /\ UNCHANGED <<artsVars, pureVars>>

\* main, line 137
LocParse ==
    /\ pc = "fetched"
    /\ locs' = parse_to_locations(tsv_text)
    /\ pc' = "parsed"
    /\ UNCHANGED <<args, log, exitCode, raised, tsv_text, sorted_rows, out_file>>
    /\ UNCHANGED <<artsVars, pureVars>>

\* main, lines 138-142
LocDedupeSort ==
    /\ pc = "parsed"
    /\ IF locs = <<>>
       THEN /\ pc' = "done" /\ exitCode' = Some(2) /\ UNCHANGED sorted_rows
       ELSE /\ pc' = "sorted" /\ sorted_rows' = SortRows(dedupe_by_zoo_id(locs))
            /\ UNCHANGED exitCode
    /\ UNCHANGED <<args, log, raised, tsv_text, locs, out_file>>
    /\ UNCHANGED <<artsVars, pureVars>>

\* main, lines 143-145: write_csv.  open() or a write may raise OSError; the
\* file is then absent or holds the rows written before the failure.
LocWrite ==
    /\ pc = "sorted"
    /\ \/ /\ out_file' = Some(WrittenRows(sorted_rows))
          /\ pc' = "done" /\ exitCode' = Some(0) /\ UNCHANGED raised
       \/ /\ \E n \in 0..(Len(sorted_rows) - 1) :
                out_file' \in {None, Some(SubSeq(WrittenRows(sorted_rows), 1, n))}
          /\ LocRaise("OSError")
    /\ UNCHANGED <<args, log, tsv_text, locs, sorted_rows>>
    /\ UNCHANGED <<artsVars, pureVars>>

\* main from the parsed feed on: any list of (zoo_id, lat, lon).
MaxLocs == 3   \* tuples parsed from the feed

ZooIds == {0 - 1, 2, 10}
Lats   == {[neg |-> FALSE, m |-> 525200066, sc |-> 7], [neg |-> FALSE, m |-> 50, sc |-> 0]}
Lons   == {[neg |-> TRUE, m |-> 134, sc |-> 1]}
Tuples == {<<z, la, lo>> : z \in ZooIds, la \in Lats, lo \in Lons}

InitRows ==
    /\ pc = "parsed"
    /\ locs \in SeqsUpTo(Tuples, MaxLocs)
    /\ tsv_text = <<>> /\ sorted_rows = <<>> /\ out_file = None
    /\ args = <<>> /\ log = <<>> /\ exitCode = None /\ raised = None
    /\ ArtsIdle /\ PureIdle

NextRows == LocDedupeSort \/ LocWrite

SpecRows == InitRows /\ [][NextRows]_vars

\* main from the fetched payload on: texts of up to MaxLines lines.
MaxLines == 3   \* lines of the payload

PayloadLines ==
    { HeaderLine,
      <<"1", ",", "2", TAB, "5">>,
      <<"3", ".", "5", ",", "2", TAB, "4">>,
      <<SP, "1", ",", "-", "2", SP, TAB, SP, "7", SP, TAB, "z">>,
      <<>>,
      <<"1", ",", "2">>,
      <<"x", TAB, "5">>,
      <<TAB, "5">>,
      <<"1", ",", "2", TAB>>,
      <<"1", ",", "2", ",", "3", TAB, "5">>,
      <<QUOTE, "x">>,
      <<QUOTE, "1", ",", "2", QUOTE, TAB, "5">> }

Payloads == { Join(ls) : ls \in SeqsUpTo(PayloadLines, MaxLines) }

InitParse ==
    /\ pc = "fetched"
    /\ tsv_text \in Payloads
    /\ locs = <<>> /\ sorted_rows = <<>> /\ out_file = None
    /\ args = <<>> /\ log = <<>> /\ exitCode = None /\ raised = None
    /\ ArtsIdle /\ PureIdle

NextParse == LocParse \/ LocDedupeSort

SpecParse == InitParse /\ [][NextParse]_vars

NextLoc == LocFetch \/ LocParse \/ LocDedupeSort \/ LocWrite

SpecLoc == InitLoc /\ [][NextLoc]_vars

(***************************************************************************)
(* A long batch: run_for_ids observed from the point where the first       *)
(* `count` IDs of the list have been processed; ids is the rest of the     *)
(* list and log the events from that point on.                             *)
(***************************************************************************)
MaxBatch == 3   \* IDs left in the observed part of the batch

LongBatchArgs ==
    { [zoo_id |-> None, locations |-> None, offset |-> 0, limit |-> None,
       sleep_s |-> sl, max_retries |-> MaxRetries] : sl \in {0, DefaultSleep} }

InitLongBatch ==
    /\ pc = "loop"
    /\ args \in LongBatchArgs
    /\ ids \in [1..MaxBatch -> {1, 2}]
    /\ pos = 0
    /\ count \in {0, SleepCap - 2}
    /\ outcomes = <<>>
    /\ log = <<>>
    /\ exitCode = None
    /\ raised = None
    /\ LocIdle /\ PureIdle

NextLongBatch == ArtsIterate \/ ArtsReturn

SpecLongBatch == InitLongBatch /\ [][NextLongBatch]_vars

(***************************************************************************)
(* extract_art_ids_from_html.  The argument is the fragment as             *)
(* BeautifulSoup parses it: its elements in document order, each with its  *)
(* tag name and its href attribute (None if it has none).                  *)
(***************************************************************************)
MaxLinks == 2   \* elements of the fragment

ART == <<"a", "r", "t", "=">>

IsPrefixAt(str, i, w) ==
    /\ i + Len(w) - 1 <= Len(str)
    /\ \A j \in 1..Len(w) : str[i + j - 1] = w[j]

\* The end of the longest digit run starting at i (i - 1 if there is none).
RECURSIVE DigitsEnd(_, _)
DigitsEnd(str, i) ==
    IF i <= Len(str) /\ str[i] \in Digit THEN DigitsEnd(str, i + 1) ELSE i - 1

\* _ART_QS_RE tried at one start position i (0 = the alternative ^, else the
\* position of the [?&] character): <<digits>> if it matches there.
MatchAt(str, i) ==
    LET a == i + 1                    \* where "art=" must start
        d == a + Len(ART)             \* where the digits must start
        e == DigitsEnd(str, d)
    IN  IF /\ (i = 0 \/ str[i] \in {"?", "&"})
           /\ IsPrefixAt(str, a, ART)
           /\ e >= d
           /\ (e = Len(str) \/ str[e + 1] = "&")
        THEN Some(SubSeq(str, d, e)) ELSE None

\* _ART_QS_RE.search(str): the match at the leftmost start position, tried
\* from the left as the regex engine does.
RECURSIVE SearchFrom(_, _)
SearchFrom(str, i) ==
    IF i > Len(str) THEN None
    ELSE IF MatchAt(str, i) # None THEN MatchAt(str, i)
    ELSE SearchFrom(str, i + 1)

RegexSearch(str) == SearchFrom(str, 0)

\* The for loop of extract_art_ids_from_html: the values added to the set,
\* in document order.
RECURSIVE Collected(_)
Collected(elems) ==
    IF elems = <<>> THEN <<>>
    ELSE LET el == Head(elems)
             m  == IF el.name = "a" /\ el.href # None THEN RegexSearch(el.href[1]) ELSE None
         IN  (IF m # None THEN <<DigitsVal(m[1])>> ELSE <<>>) \o Collected(Tail(elems))

\* sorted(set)
RECURSIVE SortedSet(_)
SortedSet(S) ==
    IF S = {} THEN <<>>
    ELSE LET lo == CHOOSE v \in S : \A w \in S : v <= w
         IN  <<lo>> \o SortedSet(S \ {lo})

Range(seq) == {seq[i] : i \in 1..Len(seq)}

extract_art_ids_from_html_AsList(elems) == Collected(elems)
extract_art_ids_from_html(elems) == SortedSet(Range(Collected(elems)))

HrefPrefixes == { <<>>, <<"x", "?">>, <<"x", "?", "i", "d", "=", "1", "&">>, <<"x">> }
HrefParams   == { ART \o <<"4", "2">>, ART \o <<"0", "7">>, ART \o <<"7">> }
HrefSuffixes == { <<>>, <<"&", "h", "=", "0">>, <<"&">> \o ART \o <<"9">>, <<"x">> }

Hrefs == { p \o q \o r : p \in HrefPrefixes, q \in HrefParams, r \in HrefSuffixes }

Elements ==
    { [name |-> "a", href |-> Some(h)] : h \in Hrefs }
    \cup { [name |-> "a", href |-> None],
           [name |-> "a", href |-> Some(<<>>)],
           [name |-> "link", href |-> Some(<<"x", "?">> \o ART \o <<"3">>)] }

InitExtract ==
    /\ pc = "call"
    /\ html_text \in SeqsUpTo(Elements, MaxLinks)
    /\ arts = <<>>
    /\ x = <<>> /\ s = <<>>
    /\ args = <<>> /\ log = <<>> /\ exitCode = None /\ raised = None
    /\ ArtsIdle /\ LocIdle

ExtractCall ==
    /\ pc = "call"
    /\ arts' = extract_art_ids_from_html(html_text)
    /\ pc' = "return"
    /\ UNCHANGED <<args, log, exitCode, raised, html_text, x, s>>
    /\ UNCHANGED <<artsVars, locVars>>

NextExtract == ExtractCall

SpecExtract == InitExtract /\ [][NextExtract]_vars

(***************************************************************************)
(* Claims about extract_art_ids_from_html.                                 *)
(***************************************************************************)
\* The positions of an href where a parameter art=<digits> stands: at the
\* start of the string or after "?" or "&", ended by "&" or the end.
ArtParamAt(str, a) ==
    /\ a >= 1
    /\ a + Len(ART) <= Len(str)
    /\ SubSeq(str, a, a + Len(ART) - 1) = ART
    /\ (a = 1 \/ str[a - 1] \in {"?", "&"})
    /\ \E e \in (a + Len(ART))..Len(str) :
          /\ \A j \in (a + Len(ART))..e : str[j] \in Digit
          /\ (e = Len(str) \/ str[e + 1] = "&")

ArtParamValue(str, a) ==
    LET e == CHOOSE e \in (a + Len(ART))..Len(str) :
                 /\ \A j \in (a + Len(ART))..e : str[j] \in Digit
                 /\ (e = Len(str) \/ str[e + 1] = "&")
    IN  DigitsVal(SubSeq(str, a + Len(ART), e))

ArtParams(str) == {a \in 1..Len(str) : ArtParamAt(str, a)}

Links == {i \in 1..Len(html_text) : html_text[i].name = "a" /\ html_text[i].href # None}

\* Every art parameter of every link.
AllArtIds ==
    UNION { {ArtParamValue(html_text[i].href[1], a) : a \in ArtParams(html_text[i].href[1])}
            : i \in Links }

\* The first art parameter of every link that has one.
FirstArtIds ==
    { ArtParamValue(html_text[i].href[1],
                    CHOOSE a \in ArtParams(html_text[i].href[1]) :
                        \A b \in ArtParams(html_text[i].href[1]) : a <= b)
      : i \in {j \in Links : ArtParams(html_text[j].href[1]) # {}} }

StrictlyAscending(seq) == \A i \in 1..(Len(seq) - 1) : seq[i] < seq[i + 1]

\* C3 as stated: the result is the strictly ascending list of every art=N
\* parameter of every link, also of an href that carries several.
C3_AsClaimed ==
    pc = "return" => (StrictlyAscending(arts) /\ Range(arts) = AllArtIds)

\* C3, amended: the result is the strictly ascending, duplicate-free list of
\* the first art=N parameter of every link that has one (a later art
\* parameter of the same href is not collected); no matching link gives the
\* empty list.
C3_FirstParamPerLink ==
    pc = "return" =>
        /\ StrictlyAscending(arts)
        /\ Range(arts) = FirstArtIds
        /\ (FirstArtIds = {} => arts = <<>>)

C3_Witness ==
    /\ pc = "return"
    /\ Len(html_text) = 2
    /\ html_text[1].href = Some(<<"x", "?", "i", "d", "=", "1", "&">> \o ART \o <<"4", "2">>
                                \o <<"&">> \o ART \o <<"9">>)
    /\ html_text[2].href = Some(<<"x", "?">> \o ART \o <<"0", "7">>)
    /\ arts = <<7, 42>>

(***************************************************************************)
(* Claims about the arts pipeline.                                         *)
(***************************************************************************)
IsPost(e)  == e.op = "post"
PostIds    == [i \in 1..Len(SelectSeq(log, IsPost)) |-> SelectSeq(log, IsPost)[i].id]
LogHas(op) == \E i \in 1..Len(log) : log[i].op = op

\* The events of the k-th consumed ID: from its post up to the next post.
PostIndex(k) ==
    CHOOSE i \in 1..Len(log) :
        /\ log[i].op = "post"
        /\ Cardinality({j \in 1..i : log[j].op = "post"}) = k
WrittenAt(k) ==
    /\ PostIndex(k) < Len(log)
    /\ log[PostIndex(k) + 1] = [op |-> "write", id |-> ids[k]]

LocationsMode == args.zoo_id = None /\ args.locations # None

\* C1: run_for_ids requests every ID of the list exactly once, in list
\* order, whatever the outcomes of the IDs before it; an ID's file is written
\* exactly when its own request, parse and write succeeded; and no outcome
\* ends the loop before the list is exhausted.
C1_EveryIdProcessed ==
    /\ PostIds = SubSeq(ids, 1, pos)
    /\ Len(outcomes) = pos
    /\ \A k \in 1..pos : (outcomes[k] = "ok") <=> WrittenAt(k)
    /\ (pc = "done" /\ raised = None) => pos = Len(ids)

C1_Witness ==
    /\ pc = "done"
    /\ Len(ids) = 2
    /\ outcomes = <<"http", "ok">>
    /\ WrittenAt(2)

\* The window the claim describes: the IDs at 0-based positions
\* max(offset,0) .. max(offset,0)+limit-1 that exist, to the end if no limit.
ClaimedWindow(all, offset, limit) ==
    LET start == Max(offset, 0)
        In(p) == p >= start /\ (limit = None \/ p <= start + limit[1] - 1)
        keep  == {p \in 0..(Len(all) - 1) : In(p)}
        F[p \in 0..Len(all)] ==
            IF p = Len(all) THEN <<>>
            ELSE IF p \in keep THEN <<all[p + 1]>> \o F[p + 1] ELSE F[p + 1]
    IN  F[0]

\* C4: in --locations mode the IDs processed are exactly the claimed window
\* of the IDs read from the CSV, in file order, for every offset and limit.
C4_WindowAsClaimed ==
    (pc = "done" /\ LocationsMode /\ raised = None) =>
        PostIds = ClaimedWindow(read_zoo_ids_from_locations(args.locations[1]).ids,
                                args.offset, args.limit)

\* C5: a --locations CSV without a column named zoo_id (or without any
\* header row) ends the run with an uncaught exception and a non-zero exit,
\* and at no point of the run is a request issued or a file written.
NoZooIdColumn ==
    /\ LocationsMode
    /\ \/ args.locations[1].fieldnames = None
       \/ ~HasZooIdColumn(args.locations[1].fieldnames[1])

C5_MissingColumnIsFatal ==
    NoZooIdColumn =>
        /\ log = <<>>
        /\ pc # "loop"
        /\ pc = "done" => (raised # None /\ exitCode # None /\ exitCode # Some(0))

C5_Witness ==
    /\ pc = "done"
    /\ LocationsMode
    /\ args.locations[1].fieldnames = Some(<<"id", "latitude">>)
    /\ raised = Some("ValueError")
    /\ exitCode = Some(1)

\* C7: the pipeline returns 2, with no request and no file, exactly when the
\* resolved list is empty; with a non-empty list it runs the loop to the end
\* and returns 0, whatever the number of failed IDs.
C7_ExitCodes ==
    (pc = "done" /\ raised = None) =>
        /\ (ids = <<>>) <=> (exitCode = Some(2))
        /\ ids = <<>> => log = <<>>
        /\ ids # <<>> => (exitCode = Some(0) /\ pos = Len(ids) /\ PostIds = ids)

C7_Witness ==
    /\ pc = "done"
    /\ exitCode = Some(0)
    /\ Len(ids) = 2
    /\ \A k \in 1..2 : outcomes[k] # "ok"

\* C8: with a positive delay, every processed ID is followed by one sleep
\* before the next request, whatever its position in the batch.
C8_PauseAfterEveryId ==
    args.sleep_s > 0 =>
        /\ \A i \in 2..Len(log) : log[i].op = "post" => log[i - 1].op = "sleep"
        /\ log # <<>> => log[Len(log)].op = "sleep"

(***************************************************************************)
(* _fmt_sig6 on its own.  The inputs are decimal values whose rounding is  *)
(* not a tie: the double nearest to a decimal tie may lie on either side   *)
(* of it.                                                                  *)
(***************************************************************************)
MaxScale == 8   \* digits after the decimal point of an input value

Mantissas ==
    {0, 1, 5, 12, 999999, 9999996, 1234567, 123456, 525200066, 13404954,
     100001, 123456789}

IsTie(d) ==
    LET nd == NumDigits(d.m)
    IN  \/ nd > 6 /\ d.m % Pow10(nd - 6) = 5 * Pow10(nd - 7)
        \/ d.sc > 6 /\ (d.m % Pow10(d.sc)) % Pow10(d.sc - 6) = 5 * Pow10(d.sc - 7)

Floats ==
    { d \in { Normal([neg |-> n, m |-> m, sc |-> sc]) :
                n \in BOOLEAN, m \in Mantissas, sc \in 0..MaxScale } : ~IsTie(d) }

InitFmt ==
    /\ pc = "call"
    /\ x \in Floats
    /\ s = <<>>
    /\ args = <<>> /\ log = <<>> /\ exitCode = None /\ raised = None
    /\ html_text = <<>> /\ arts = <<>>
    /\ ArtsIdle /\ LocIdle

FmtCall ==
    /\ pc = "call"
    /\ s' = FmtSig6(x)
    /\ pc' = "return"
    /\ UNCHANGED <<args, log, exitCode, raised, x, html_text, arts>>
    /\ UNCHANGED <<artsVars, locVars>>

NextFmt == FmtCall

SpecFmt == InitFmt /\ [][NextFmt]_vars

(***************************************************************************)
(* Claims about the location pipeline.                                     *)
(***************************************************************************)
\* The zoo_id of a written row, read back from its text.
RowId(row) == PyInt(row[1])[1]

FirstWithId(ls, z) ==
    ls[CHOOSE i \in 1..Len(ls) : ls[i][1] = z /\ \A j \in 1..(i - 1) : ls[j][1] # z]

\* C2: the rows handed to write_csv, and the rows written, are strictly
\* ascending by zoo_id, hold exactly the zoo_ids of the parsed tuples, and
\* each carries the latitude and longitude of the first parsed tuple with
\* its zoo_id.
C2_FirstWinsSorted ==
    /\ pc = "sorted" =>
        /\ \A i \in 1..(Len(sorted_rows) - 1) : sorted_rows[i][1] < sorted_rows[i + 1][1]
        /\ {sorted_rows[i][1] : i \in 1..Len(sorted_rows)} = {locs[i][1] : i \in 1..Len(locs)}
        /\ \A i \in 1..Len(sorted_rows) : sorted_rows[i] = FirstWithId(locs, sorted_rows[i][1])
    /\ (pc = "done" /\ exitCode = Some(0)) =>
        LET rows == out_file[1]
        IN  /\ \A i \in 1..(Len(rows) - 1) : RowId(rows[i]) < RowId(rows[i + 1])
            /\ {RowId(rows[i]) : i \in 1..Len(rows)} = {locs[i][1] : i \in 1..Len(locs)}
            /\ \A i \in 1..Len(rows) : rows[i] = CsvRow(FirstWithId(locs, RowId(rows[i])))

C2_Witness ==
    /\ pc = "done"
    /\ exitCode = Some(0)
    /\ Len(locs) = 3
    /\ locs[1][1] = 10 /\ locs[2][1] = 2 /\ locs[3][1] = 10
    /\ locs[1][2] # locs[3][2]
    /\ Len(out_file[1]) = 2

\* The answer that ends the request as the claim reads it: the first answer
\* that is not retried, or the answer to the last attempt.
Retryable(a) == a = "conn" \/ StatusOf(a) \in STATUS_FORCELIST

LastAnswer(answers) ==
    LET stop == {k \in 1..Len(answers) : ~Retryable(answers[k]) \/ k = Len(answers)}
    IN  answers[CHOOSE k \in stop : \A j \in stop : k <= j]

CsvWritten == sorted_rows # <<>> /\ out_file = Some(WrittenRows(sorted_rows))

\* The four parts of C6.
C6_ZeroIffWritten == pc = "done" => ((exitCode = Some(0)) <=> CsvWritten)

C6_TwoIfNothingParsed ==
    (pc = "done" /\ LogHas("sleep") /\ locs = <<>>) => (exitCode = Some(2) /\ out_file = None)

C6_ThreeOnHttpStatus ==
    (pc = "done" /\ LastAnswer(log[1].answers) \in {"404", "500"}) => exitCode = Some(3)

C6_OneOtherwise ==
    (pc = "done" /\ (LastAnswer(log[1].answers) = "conn" \/ raised = Some("OSError")))
        => exitCode = Some(1)

\* C6: exit status 0 exactly when the CSV was written; 2 when the feed was
\* fetched and no row parsed (and no file written); 3 whenever the request
\* ends in an HTTP error status, retried or not; 1 for every other error.
C6_ExitCodes ==
    /\ C6_ZeroIffWritten
    /\ C6_TwoIfNothingParsed
    /\ C6_ThreeOnHttpStatus
    /\ C6_OneOtherwise

\* A line split at its tabs, with no quoting.
RECURSIVE TabSplit(_)
TabSplit(line) ==
    LET i == IndexOf(line, TAB)
    IN  IF i = 0 THEN <<line>>
        ELSE <<SubSeq(line, 1, i - 1)>> \o TabSplit(SubSeq(line, i + 1, Len(line)))

\* The result C9 describes: the first line dropped, every later line split
\* at its tabs and kept or skipped on its own.
ClaimedLocations(text) ==
    LET lines == SplitLines(text)
    IN  IF lines = <<>> THEN <<>>
        ELSE ParseRows([i \in 1..(Len(lines) - 1) |-> TabSplit(lines[i + 1])])

\* C9: parse_to_locations drops the first row and returns, in order, exactly
\* the later rows with two parsable tab-separated columns; any other row is
\* skipped without an effect on the rows after it.
C9_RowsKeptIndependently ==
    pc # "fetched" => locs = ClaimedLocations(tsv_text)

(***************************************************************************)
(* Claims about _fmt_sig6.                                                 *)
(***************************************************************************)
RECURSIVE StripZeros(_)
StripZeros(n) == IF n # 0 /\ n % 10 = 0 THEN StripZeros(n \div 10) ELSE n

\* The number of significant digits a decimal text carries.
SigDigits(str) == NumDigits(StripZeros(PyFloat(str)[1].m))

NoExponent(str) == ~Contains(str, "e") /\ ~Contains(str, "E")

\* A decimal point with at least one digit after it.
DigitAfterPoint(str) ==
    /\ Contains(str, ".")
    /\ IndexOf(str, ".") < Len(str)
    /\ \A i \in (IndexOf(str, ".") + 1)..Len(str) : str[i] \in Digit

\* Trailing zeros are trimmed: the text ends in a non-zero digit, or in ".0".
ZerosTrimmed(str) ==
    \/ str[Len(str)] # "0"
    \/ (Len(str) >= 2 /\ str[Len(str) - 1] = ".")

\* x rounded to 6 significant digits, as a value; defined when the result
\* has no digit left of the units that rounding cut off.
Sig6(d) ==
    LET nd == NumDigits(d.m)
    IN  IF d.m = 0 \/ nd <= 6 THEN d
        ELSE Normal([neg |-> d.neg, m |-> RoundDiv10(d.m, nd - 6), sc |-> d.sc - (nd - 6)])

\* The decimal exponent of x rounded to 6 significant digits.
Exp6(d) ==
    LET nd == NumDigits(d.m)
        up == nd > 6 /\ RoundDiv10(d.m, nd - 6) = Pow10(6)
    IN  nd - 1 - d.sc + (IF up THEN 1 ELSE 0)

\* x rounded to 6 digits after the decimal point, as a value.
Dec6(d) ==
    IF d.sc <= 6 THEN d
    ELSE Normal([neg |-> d.neg, m |-> RoundDiv10(d.m, d.sc - 6), sc |-> 6])

V52_5200066 == [neg |-> FALSE, m |-> 525200066, sc |-> 7]
V50_0       == [neg |-> FALSE, m |-> 50, sc |-> 0]

\* C10 as stated: at most 6 significant digits, trailing zeros trimmed, no
\* scientific notation, a digit after the decimal point, 52.5200066 written
\* "52.5" and 50.0 written "50.0".
C10_AsClaimed ==
    pc = "return" =>
        /\ NoExponent(s)
        /\ DigitAfterPoint(s)
        /\ ZerosTrimmed(s)
        /\ SigDigits(s) <= 6
        /\ x = V52_5200066 => s = <<"5", "2", ".", "5">>
        /\ x = V50_0 => s = <<"5", "0", ".", "0">>

\* C10, amended: the text is never in scientific notation, has a digit
\* after its decimal point and no other trailing zero; it is x rounded to 6
\* significant digits when that rounded value is 0 or has a magnitude from
\* 1e-4 up to (not including) 1e6, and x rounded to 6 decimals otherwise;
\* 52.5200066 is written "52.52" and 50.0 is written "50.0".
C10_Format ==
    pc = "return" =>
        /\ NoExponent(s)
        /\ DigitAfterPoint(s)
        /\ ZerosTrimmed(s)
        /\ PyFloat(s) # None
        /\ IF x.m = 0 \/ (Exp6(x) >= 0 - 4 /\ Exp6(x) < 6)
           THEN PyFloat(s)[1] = Sig6(x) /\ SigDigits(s) <= 6
           ELSE PyFloat(s)[1] = Dec6(x)
        /\ x = V52_5200066 => s = <<"5", "2", ".", "5", "2">>
        /\ x = V50_0 => s = <<"5", "0", ".", "0">>

C10_Witness ==
    /\ pc = "return"
    /\ x = V52_5200066
    /\ s = <<"5", "2", ".", "5", "2">>

====
